---- MODULE Spec2Model ----
(***************************************************************************)
(* Authorization and access-filtering engine of project-agent:             *)
(* the tenant directory (packages/shared/clients/rbac.py), the context     *)
(* resolver and document filter (packages/shared/clients/auth.py), the     *)
(* retrieval-then-compose planners (packages/agent_core, agent-core), the  *)
(* documents and chat endpoints and the owner access-request workflow      *)
(* (services/api/admin/app.py).                                            *)
(*                                                                         *)
(* Python values that the code compares or hashes are modelled as records  *)
(* [type, id]: a str, None, or a pydantic object (Project, Client).  A     *)
(* pydantic object never equals a str and is not hashable.                 *)
(***************************************************************************)
EXTENDS Integers, Sequences, FiniteSets, TLC

VARIABLES users, clients, projects, user_client_assignments,
          user_project_assignments, documents, access_requests,
          bulk_access_requests, last, pq, audit_logs, now,
          document_count, completed_documents, tasks

vars == <<users, clients, projects, user_client_assignments,
          user_project_assignments, documents, access_requests,
          bulk_access_requests, last, pq, audit_logs, now,
          document_count, completed_documents, tasks>>

dirVars == <<users, clients, projects, user_client_assignments,
             user_project_assignments>>

flowVars == <<documents, access_requests, bulk_access_requests>>

\* the audit_logs collection and the clock its ids are taken from
auditVars == <<audit_logs, now>>

\* the document_count of the project, the number of documents that completed
\* operations added to the project, and the handlers that are under way
jobVars == <<document_count, completed_documents, tasks>>

(***************************************************************************)
(* Bounds of the model.                                                    *)
(***************************************************************************)
MaxDocs == 2

MaxCandidates == 2

(***************************************************************************)
(* Identifiers.                                                            *)
(***************************************************************************)
None == "None"

Emails == {"u1"}

ClientIds == {"client-a"}

ClientOrder == <<"client-a">>

ProjectIds == {"proj-1"}

ProjectOrder == <<"proj-1">>

StoredDocIds == {"a", "b", "c", "e"}

DocIds == StoredDocIds \cup {"zz"}

OwnerEmail == "owner"

(***************************************************************************)
(* UserRole and ROLE_PERMISSIONS (schemas/rbac.py).                        *)
(***************************************************************************)
SUPER_ADMIN == "super_admin"

ACCOUNT_ADMIN == "account_admin"

PROJECT_ADMIN == "project_admin"

END_USER == "end_user"

UserRole == {SUPER_ADMIN, ACCOUNT_ADMIN, PROJECT_ADMIN, END_USER}

ROLE_PERMISSIONS ==
    [r \in UserRole |->
        CASE r = SUPER_ADMIN ->
               {"manage_clients", "manage_users", "manage_system", "view_client",
                "manage_projects", "view_project", "manage_documents",
                "upload_documents", "approve_documents", "delete_documents",
                "view_documents", "chat_with_documents", "download_documents"}
          [] r = ACCOUNT_ADMIN ->
               {"view_client", "manage_users", "manage_projects", "view_project",
                "view_documents", "chat_with_documents"}
          [] r = PROJECT_ADMIN ->
               {"view_project", "manage_documents", "upload_documents",
                "approve_documents", "delete_documents", "view_documents",
                "chat_with_documents", "download_documents"}
          [] r = END_USER ->
               {"view_project", "view_documents", "chat_with_documents"}]

get_role_permissions(role) ==
    IF role \in UserRole THEN ROLE_PERMISSIONS[role] ELSE {}

(***************************************************************************)
(* Python values.                                                          *)
(***************************************************************************)
PyStr(s) == [type |-> "str", id |-> s]

PyNone == [type |-> "NoneType", id |-> None]

PyObj(t, s) == [type |-> t, id |-> s]

\* hash(v): str and None are hashable, a pydantic BaseModel instance is not
Hashable(v) == v.type \in {"str", "NoneType"}

\* x in list: element-wise ==; a str equals only the same str
InList(v, list) == \E i \in 1..Len(list) : list[i] = v

\* set(list): defined only when every element is hashable
SetOf(list) == {list[i] : i \in 1..Len(list)}

AllHashable(list) == \A i \in 1..Len(list) : Hashable(list[i])

\* dict.get(key) on a document dict: the field's str, or None when absent
DictGet(field) == IF field = None THEN PyNone ELSE PyStr(field)

\* bool(v) for a value used in a condition: None is falsy, objects are truthy
Truthy(v) == v.type # "NoneType"

(***************************************************************************)
(* Stored shapes.  A user profile is keyed by its email; NoUser marks an   *)
(* email without a profile.                                                *)
(***************************************************************************)
NoUser == [exists |-> FALSE, role |-> END_USER, client_ids |-> <<>>, project_ids |-> <<>>]

UserProfile(role, cids, pids) ==
    [exists |-> TRUE, role |-> role, client_ids |-> cids, project_ids |-> pids]

\* duplicate-free id lists a caller may pass when creating a user
IdLists(S) ==
    {<<>>} \cup {<<x>> : x \in S} \cup {l \in {<<x, y>> : x, y \in S} : l[1] # l[2]}

\* documents collection: the visibility-relevant fields of DocumentMetadata
DocumentCatalog ==
    [d \in StoredDocIds |->
        CASE d = "a" -> [project_id |-> "proj-1", client_id |-> "client-a", visibility |-> "project"]
          [] d = "b" -> [project_id |-> "proj-2", client_id |-> "client-a", visibility |-> "project"]
          [] d = "c" -> [project_id |-> None, client_id |-> "client-a", visibility |-> "client"]
          [] d = "e" -> [project_id |-> "proj-3", client_id |-> "client-b", visibility |-> "public"]]

\* the documents whose source needs the owner's permission
RequiresPermission == {"a", "b"}

\* a document as ingestion stores it
InitialDocument(d) ==
    [project_id |-> DocumentCatalog[d].project_id,
     client_id |-> DocumentCatalog[d].client_id,
     visibility |-> DocumentCatalog[d].visibility,
     status |-> IF d \in RequiresPermission THEN "request_access" ELSE "uploaded",
     access_granted |-> FALSE,
     responsible_party |-> OwnerEmail,
     access_request_id |-> 0,
     bulk_request_id |-> None]

\* access requests are stored in creation order; the id of a request is its
\* position (the ids carry the creation time, 0 stands for "no request")
AccessRequest(doc_id, owner_email, bulk_request_id) ==
    [doc_id |-> doc_id, owner_email |-> owner_email, status |-> "pending",
     bulk_request_id |-> bulk_request_id]

BulkIds == {"bulk-1"}

NoBulkRequest ==
    [exists |-> FALSE, total_documents |-> 0, pending_count |-> 0,
     approved_count |-> 0, denied_count |-> 0]

\* injective lists of stored documents of length at most n
RECURSIVE DocLists(_)
DocLists(n) ==
    IF n = 0 THEN {<<>>}
    ELSE LET shorter == DocLists(n - 1)
             longest == {l \in shorter : Len(l) = n - 1}
             fresh(l) == {d \in StoredDocIds : \A i \in 1..Len(l) : l[i] # d}
         IN  shorter \cup UNION {{Append(l, d) : d \in fresh(l)} : l \in longest}

(***************************************************************************)
(* RBACClient lookups (clients/rbac.py).                                   *)
(***************************************************************************)
\* get_user_by_email / get_user: the profile or None
get_user_by_email(email) == IF email \in Emails THEN users[email] ELSE NoUser

\* list_projects(): every stored Project object
list_projects == SelectSeq(ProjectOrder, LAMBDA p : p \in projects)

list_clients == SelectSeq(ClientOrder, LAMBDA c : c \in clients)

RECURSIVE ResolveObjects(_, _, _)
\* the loop of get_user_projects / get_user_clients: one lookup per assigned
\* id, keeping the object of every id that has a record
ResolveObjects(ids, stored, type) ==
    IF ids = <<>> THEN <<>>
    ELSE LET rest == ResolveObjects(Tail(ids), stored, type)
         IN  IF Head(ids) \in stored THEN <<PyObj(type, Head(ids))>> \o rest ELSE rest

ObjectsOf(ids, type) == [i \in 1..Len(ids) |-> PyObj(type, ids[i])]

get_user_projects(user) ==
    IF ~user.exists THEN <<>>
    ELSE IF user.role = SUPER_ADMIN THEN ObjectsOf(list_projects, "Project")
    ELSE ResolveObjects(user.project_ids, projects, "Project")

get_user_clients(user) ==
    IF ~user.exists THEN <<>>
    ELSE IF user.role = SUPER_ADMIN THEN ObjectsOf(list_clients, "Client")
    ELSE ResolveObjects(user.client_ids, clients, "Client")

(***************************************************************************)
(* Tenant context resolver (clients/auth.py get_user_context).             *)
(***************************************************************************)
MinimalContext(email) ==
    [email |-> email, known |-> FALSE, role |-> END_USER, permissions |-> {},
     client_ids |-> <<>>, project_ids |-> <<>>]

\* mutant: a failed directory read loses the id lists but keeps the stored role
get_user_context_KeepsRoleOnFailure(email, store_up) ==
    LET user == get_user_by_email(email)
    IN  IF ~user.exists THEN MinimalContext(email)
        ELSE IF ~store_up
        THEN [email |-> email, known |-> TRUE, role |-> user.role,
              permissions |-> get_role_permissions(user.role),
              client_ids |-> <<>>, project_ids |-> <<>>]
        ELSE [email |-> email, known |-> TRUE, role |-> user.role,
              permissions |-> get_role_permissions(user.role),
              client_ids |-> get_user_clients(user),
              project_ids |-> get_user_projects(user)]

\* mutant: an email without profile gets the permissions of the EndUser role
get_user_context_DefaultPermissions(email, store_up) ==
    IF ~store_up THEN MinimalContext(email)
    ELSE LET user == get_user_by_email(email)
         IN  [email |-> email, known |-> user.exists, role |-> user.role,
              permissions |-> get_role_permissions(user.role),
              client_ids |-> get_user_clients(user),
              project_ids |-> get_user_projects(user)]

\* store_up = FALSE: a directory read raises inside the try block
get_user_context(email, store_up) ==
    IF ~store_up THEN MinimalContext(email)
    ELSE LET user == get_user_by_email(email)
         IN  IF ~user.exists THEN MinimalContext(email)
             ELSE [email |-> email, known |-> TRUE, role |-> user.role,
                   permissions |-> get_role_permissions(user.role),
                   client_ids |-> get_user_clients(user),
                   project_ids |-> get_user_projects(user)]

\* the directory reads one call of get_user_context makes, in order:
\* get_user_by_email, then in get_user_clients and get_user_projects a
\* get_user followed by list_clients / list_projects for a SuperAdmin and by
\* one get_client / get_project per assigned id for the others
Lookup(collection, key) == [collection |-> collection, key |-> key]

get_user_context_lookups(email, store_up) ==
    LET user == get_user_by_email(email)
        by_email == <<Lookup("users", email)>>
    IN  IF ~store_up \/ ~user.exists THEN by_email
        ELSE IF user.role = SUPER_ADMIN
        THEN by_email \o <<Lookup("users", email), Lookup("clients", "*"),
                           Lookup("users", email), Lookup("projects", "*")>>
        ELSE by_email
             \o <<Lookup("users", email)>>
             \o [i \in 1..Len(user.client_ids) |-> Lookup("clients", user.client_ids[i])]
             \o <<Lookup("users", email)>>
             \o [i \in 1..Len(user.project_ids) |-> Lookup("projects", user.project_ids[i])]

\* what a resolver hands back: a context, or the exception it raised
Resolved(context) == [raised |-> "none", context |-> context]

ResolveFailed(exc, email) == [raised |-> exc, context |-> MinimalContext(email)]

StringsOf(ids) == [i \in 1..Len(ids) |-> PyStr(ids[i])]

\* RBACClient.get_tenant_context: the TenantContext of the stored profile (it
\* has no permissions field; its id lists are the profile's own lists of
\* strings); an email without profile raises AuthorizationError
get_tenant_context(email, store_up) ==
    IF ~store_up THEN ResolveFailed("StoreError", email)
    ELSE LET user == get_user_by_email(email)
         IN  IF ~user.exists THEN ResolveFailed("AuthorizationError", email)
             ELSE Resolved([email |-> email, known |-> TRUE, role |-> user.role,
                            permissions |-> {},
                            client_ids |-> StringsOf(user.client_ids),
                            project_ids |-> StringsOf(user.project_ids)])

(***************************************************************************)
(* Document store (clients/firestore.py).                                  *)
(***************************************************************************)
\* attributes of a DocumentMetadata instance that the access checks read;
\* a pydantic model has no dict-style get method
DocumentMetadataAttrs == {"id", "project_id", "client_id", "visibility", "status"}

\* FirestoreClient.get_document: a DocumentMetadata object, or None
firestore_get_document(doc_id) ==
    IF doc_id \in StoredDocIds THEN PyObj("DocumentMetadata", doc_id) ELSE PyNone

\* the dict of a stored document, as the listing queries return it
DocDict(d) ==
    [id |-> d, project_id |-> documents[d].project_id, client_id |-> documents[d].client_id]

DocDicts(ids) == [i \in 1..Len(ids) |-> DocDict(ids[i])]

DictIds(dicts) == [i \in 1..Len(dicts) |-> dicts[i].id]

(***************************************************************************)
(* Access filter (clients/auth.py).                                        *)
(***************************************************************************)
Returned(docs) == [raised |-> "none", docs |-> docs]

Raised(exc) == [raised |-> exc, docs |-> <<>>]

\* the loop body of filter_documents_by_access: project match, else client match
filter_keeps(doc, accessible_projects, accessible_clients) ==
    \/ DictGet(doc.project_id) \in accessible_projects
    \/ DictGet(doc.client_id) \in accessible_clients

\* mutant: empty id lists of a non-SuperAdmin are read as "no restriction"
filter_documents_by_access_EmptyMeansAll(email, dicts, store_up) ==
    LET context == get_user_context(email, store_up)
    IN  IF context.role = SUPER_ADMIN THEN Returned(dicts)
        ELSE IF context.project_ids = <<>> /\ context.client_ids = <<>> THEN Returned(dicts)
        ELSE IF ~AllHashable(context.project_ids) THEN Raised("TypeError")
        ELSE IF ~AllHashable(context.client_ids) THEN Raised("TypeError")
        ELSE Returned(SelectSeq(dicts,
                LAMBDA doc : filter_keeps(doc, SetOf(context.project_ids),
                                          SetOf(context.client_ids))))

\* mutant: the SuperAdmin shortcut is missing
filter_documents_by_access_NoBypass(email, dicts, store_up) ==
    LET context == get_user_context(email, store_up)
    IN  IF ~AllHashable(context.project_ids) THEN Raised("TypeError")
        ELSE IF ~AllHashable(context.client_ids) THEN Raised("TypeError")
        ELSE Returned(SelectSeq(dicts,
                LAMBDA doc : filter_keeps(doc, SetOf(context.project_ids),
                                          SetOf(context.client_ids))))

filter_documents_by_access(email, dicts, store_up) ==
    LET context == get_user_context(email, store_up)
    IN  IF context.role = SUPER_ADMIN THEN Returned(dicts)
        ELSE IF ~AllHashable(context.project_ids) THEN Raised("TypeError")
        ELSE IF ~AllHashable(context.client_ids) THEN Raised("TypeError")
        ELSE LET accessible_projects == SetOf(context.project_ids)
                 accessible_clients == SetOf(context.client_ids)
             IN  Returned(SelectSeq(dicts,
                    LAMBDA doc : filter_keeps(doc, accessible_projects, accessible_clients)))

\* mutant: the SuperAdmin shortcut of the single-document check is missing
check_document_access_NoBypass(email, doc_id, store_up) ==
    LET context == get_user_context(email, store_up)
    IN  IF ~store_up THEN FALSE
        ELSE IF ~Truthy(firestore_get_document(doc_id)) THEN FALSE
        ELSE IF "get" \notin DocumentMetadataAttrs THEN FALSE
        ELSE \/ InList(DictGet(documents[doc_id].project_id), context.project_ids)
             \/ InList(DictGet(documents[doc_id].client_id), context.client_ids)

\* auth.check_document_access: the try block reads doc.get(...) on the
\* DocumentMetadata object; every exception in it yields False
check_document_access(email, doc_id, store_up) ==
    LET context == get_user_context(email, store_up)
    IN  IF context.role = SUPER_ADMIN THEN TRUE
        ELSE IF ~store_up THEN FALSE
        ELSE LET doc == firestore_get_document(doc_id)
             IN  IF ~Truthy(doc) THEN FALSE
                 ELSE IF "get" \notin DocumentMetadataAttrs THEN FALSE
                 ELSE \/ InList(DictGet(documents[doc_id].project_id), context.project_ids)
                      \/ InList(DictGet(documents[doc_id].client_id), context.client_ids)

\* auth.check_document_access when the directory answers and the read of the
\* document raises: a SuperAdmin has returned True before that read, for
\* anyone else the except branch returns False
check_document_access_docs_down(email, doc_id) ==
    LET context == get_user_context(email, TRUE)
    IN  IF context.role = SUPER_ADMIN
        THEN [allowed |-> TRUE, read_failed |-> FALSE]
        ELSE [allowed |-> FALSE, read_failed |-> TRUE]

\* has_permission of schemas/rbac.py
has_permission(role, permission) == permission \in get_role_permissions(role)

\* RBACClient.check_document_access: it reads the stored profile itself, whose
\* project_ids are id strings
rbac_check_document_access(user_id, document_id, required_permission) ==
    LET user == get_user_by_email(user_id)
    IN  IF ~user.exists THEN FALSE
        ELSE IF user.role = SUPER_ADMIN THEN TRUE
        ELSE IF document_id \notin StoredDocIds THEN FALSE
        ELSE LET project_id == documents[document_id].project_id
             IN  IF project_id = None THEN FALSE
                 ELSE IF ~InList(project_id, user.project_ids) THEN FALSE
                 ELSE has_permission(user.role, required_permission)

\* mutant: any caller with a profile is admitted
require_permission_AnyProfile(permission, email, store_up) ==
    IF get_user_context(email, store_up).known THEN 200 ELSE 403

\* the dependency built by require_permission(permission): the status it answers
require_permission(permission, email, store_up) ==
    LET context == get_user_context(email, store_up)
    IN  IF permission \notin context.permissions THEN 403 ELSE 200

\* role_hierarchy of require_role
role_hierarchy ==
    [r \in UserRole |-> CASE r = SUPER_ADMIN -> 4
                       [] r = ACCOUNT_ADMIN -> 3
                       [] r = PROJECT_ADMIN -> 2
                       [] OTHER -> 1]

\* mutant: a caller whose role equals min_role is rejected too
require_role_StrictlyAbove(min_role, email, store_up) ==
    LET context == get_user_context(email, store_up)
    IN  IF role_hierarchy[context.role] <= role_hierarchy[min_role] THEN 403 ELSE 200

\* the dependency built by require_role(min_role): the status it answers
require_role(min_role, email, store_up) ==
    LET context == get_user_context(email, store_up)
        user_role_level == role_hierarchy[context.role]
        required_role_level == role_hierarchy[min_role]
    IN  IF user_role_level < required_role_level THEN 403 ELSE 200

\* the dependency built by require_client_access: the status it answers
\* (200: the handler runs with the enriched context)
require_client_access(email, client_id, store_up) ==
    LET context == get_user_context(email, store_up)
    IN  IF context.role = SUPER_ADMIN THEN 200
        ELSE IF client_id = None THEN 400
        ELSE IF ~InList(PyStr(client_id), context.client_ids) THEN 403
        ELSE 200

\* the dependency built by require_project_access
require_project_access(email, project_id, store_up) ==
    LET context == get_user_context(email, store_up)
    IN  IF context.role = SUPER_ADMIN THEN 200
        ELSE IF project_id = None THEN 400
        ELSE IF ~InList(PyStr(project_id), context.project_ids) THEN 403
        ELSE 200

(***************************************************************************)
(* GET /documents/{doc_id} (services/api/documents/app.py).                *)
(***************************************************************************)
\* calling an async function without await yields a coroutine object
CallWithoutAwait(email, doc_id) == PyObj("coroutine", doc_id)

Response(status, body) == [status |-> status, body |-> body]

get_document(email, doc_id, store_up) ==
    LET has_access == CallWithoutAwait(email, doc_id)
    IN  IF ~Truthy(has_access) THEN Response(403, None)
        ELSE IF ~store_up THEN Response(500, None)
        ELSE IF ~Truthy(firestore_get_document(doc_id)) THEN Response(404, None)
        ELSE Response(200, doc_id)

(***************************************************************************)
(* The most recent operation and what it returned.                         *)
(***************************************************************************)
\* the caller dict and the body of POST /admin/rbac/users; role None stands
\* for a dict without the key
CurrentUser(email, role, client_ids, project_ids) ==
    [email |-> email, role |-> role, client_ids |-> client_ids,
     project_ids |-> project_ids]

UserData(email, role, client_ids, project_ids) ==
    [email |-> email, role |-> role, client_ids |-> client_ids,
     project_ids |-> project_ids]

NoCurrentUser == CurrentUser(None, None, <<>>, <<>>)

NoUserData == UserData(None, None, <<>>, <<>>)

Call(op, email, store_up, docs, doc_id, raised, out, allowed, status) ==
    [op |-> op, email |-> email, store_up |-> store_up, docs |-> docs,
     doc_id |-> doc_id, raised |-> raised, out |-> out, allowed |-> allowed,
     status |-> status, request_id |-> 0, context |-> MinimalContext(None),
     permission |-> None, min_role |-> None, lookups |-> <<>>, log_up |-> TRUE,
     current_user |-> NoCurrentUser, user_data |-> NoUserData]

NoCall == Call("none", None, TRUE, <<>>, None, "none", <<>>, FALSE, 0)

Mutation(op, email, raised) == Call(op, email, TRUE, <<>>, None, raised, <<>>, FALSE, 0)

PlannerIdle ==
    [pc |-> "idle", impl |-> "none", via |-> "none", email |-> None,
     user_project_ids |-> <<>>, user_client_ids |-> <<>>, user_role |-> None,
     search_results |-> <<>>, max_results |-> 0, next |-> 1,
     checked |-> {}, granted |-> {}, all_snippets |-> <<>>, composed |-> <<>>,
     kind |-> "none", answer |-> <<>>, snippets |-> <<>>, citations |-> <<>>,
     status |-> 0]

(***************************************************************************)
(* Tenant directory mutations (clients/rbac.py).                           *)
(***************************************************************************)
\* firestore.ArrayUnion([x]) on a stored list
ArrayUnion(list, x) == IF InList(x, list) THEN list ELSE Append(list, x)

PutAssignment(assignments, a) ==
    {b \in assignments : ~(b.user_id = a.user_id /\ b.scope = a.scope)} \cup {a}

\* the actor_email the directory mutations are called with
ActorEmail == "admin1"

\* resource_id[:8]
Prefix8(resource_id) ==
    IF Len(resource_id) <= 8 THEN resource_id ELSE SubSeq(resource_id, 1, 8)

\* the id of an audit entry: the second of the call and resource_id[:8]
LogId(second, resource_id) == <<second, Prefix8(resource_id)>>

\* the ids of the assignment records
ClientAssignmentId(user_id, client_id) == "uca-" \o user_id \o "-" \o client_id

ProjectAssignmentId(user_id, project_id) == "upa-" \o user_id \o "-" \o project_id

\* the AuditLog record; detail is what the description says beyond the ids
AuditLog(log_id, user_email, action_type, resource_type, resource_id, detail) ==
    [id |-> log_id, user_email |-> user_email, action_type |-> action_type,
     resource_type |-> resource_type, resource_id |-> resource_id, detail |-> detail]

\* log_action: doc_ref.set under the id built from the clock and the resource
log_action(user_email, action_type, resource_type, resource_id, detail) ==
    LET log_id == LogId(now, resource_id)
    IN  {l \in audit_logs : l.id # log_id}
          \cup {AuditLog(log_id, user_email, action_type, resource_type,
                         resource_id, detail)}

\* the end of a directory mutation: the audit write, and what the caller
\* gets; log_action is not guarded, its exception leaves the method
Audited(op, email, log_up, action_type, resource_type, resource_id, detail) ==
    IF log_up
    THEN /\ audit_logs' = log_action(ActorEmail, action_type, resource_type,
                                     resource_id, detail)
         /\ last' = Mutation(op, email, "none")
    ELSE /\ audit_logs' = audit_logs
         /\ last' = [Mutation(op, email, "AuditError") EXCEPT !.log_up = FALSE]

create_client(c, log_up) ==
    /\ clients' = clients \cup {c}
    /\ Audited("create_client", None, log_up, "create", "client", c, None)
    /\ UNCHANGED <<users, projects, user_client_assignments, user_project_assignments,
                   flowVars, pq, now, jobVars>>

create_project(p, log_up) ==
    /\ projects' = projects \cup {p}
    /\ Audited("create_project", None, log_up, "create", "project", p, None)
    /\ UNCHANGED <<users, clients, user_client_assignments, user_project_assignments,
                   flowVars, pq, now, jobVars>>

create_user(email, role, cids, pids, log_up) ==
    /\ users' = [users EXCEPT ![email] = UserProfile(role, cids, pids)]
    /\ Audited("create_user", email, log_up, "create", "user", email, role)
    /\ UNCHANGED <<clients, projects, user_client_assignments, user_project_assignments,
                   flowVars, pq, now, jobVars>>

\* the assignment record is written first; user_ref.update raises NotFound
\* when the user has no profile: the list is then left alone and log_action
\* is not reached
assign_user_to_client(email, c, role, log_up) ==
    /\ user_client_assignments' =
          PutAssignment(user_client_assignments, [user_id |-> email, scope |-> c, role |-> role])
    /\ IF users[email].exists
       THEN /\ users' = [users EXCEPT ![email].client_ids = ArrayUnion(@, c)]
            /\ Audited("assign_user_to_client", email, log_up, "assign",
                       "user_client_assignment", ClientAssignmentId(email, c), role)
       ELSE /\ users' = users
            /\ audit_logs' = audit_logs
            /\ last' = Mutation("assign_user_to_client", email, "NotFound")
    /\ UNCHANGED <<clients, projects, user_project_assignments, flowVars, pq, now, jobVars>>

assign_user_to_project(email, p, role, log_up) ==
    /\ user_project_assignments' =
          PutAssignment(user_project_assignments, [user_id |-> email, scope |-> p, role |-> role])
    /\ IF users[email].exists
       THEN /\ users' = [users EXCEPT ![email].project_ids = ArrayUnion(@, p)]
            /\ Audited("assign_user_to_project", email, log_up, "assign",
                       "user_project_assignment", ProjectAssignmentId(email, p), role)
       ELSE /\ users' = users
            /\ audit_logs' = audit_logs
            /\ last' = Mutation("assign_user_to_project", email, "NotFound")
    /\ UNCHANGED <<clients, projects, user_client_assignments, flowVars, pq, now, jobVars>>

(***************************************************************************)
(* Read operations: each records its inputs and its result in last.        *)
(***************************************************************************)
FilterDocuments(email, docs, store_up) ==
    /\ LET r == filter_documents_by_access(email, DocDicts(docs), store_up)
       IN  last' = [Call("filter", email, store_up, docs, None, r.raised,
                         DictIds(r.docs), FALSE, 0)
                    EXCEPT !.lookups = get_user_context_lookups(email, store_up)]
    /\ UNCHANGED <<dirVars, flowVars, pq, auditVars, jobVars>>

CheckDocumentAccess(email, doc_id, store_up) ==
    /\ last' = Call("check", email, store_up, <<>>, doc_id, "none", <<>>,
                    check_document_access(email, doc_id, store_up), 0)
    /\ UNCHANGED <<dirVars, flowVars, pq, auditVars, jobVars>>

GetDocument(email, doc_id, store_up) ==
    /\ LET r == get_document(email, doc_id, store_up)
       IN  last' = Call("get_document", email, store_up, <<>>, doc_id, "none",
                        IF r.body = None THEN <<>> ELSE <<r.body>>, FALSE, r.status)
    /\ UNCHANGED <<dirVars, flowVars, pq, auditVars, jobVars>>

CheckDocumentAccessDocsDown(email, doc_id) ==
    /\ LET r == check_document_access_docs_down(email, doc_id)
       IN  last' = Call("check_docs_down", email, TRUE, <<>>, doc_id,
                        IF r.read_failed THEN "StoreError" ELSE "none", <<>>,
                        r.allowed, 0)
    /\ UNCHANGED <<dirVars, flowVars, pq, auditVars, jobVars>>

RbacCheckDocumentAccess(user_id, document_id, required_permission) ==
    /\ last' = [Call("rbac_check", user_id, TRUE, <<>>, document_id, "none", <<>>,
                     rbac_check_document_access(user_id, document_id, required_permission), 0)
                EXCEPT !.permission = required_permission]
    /\ UNCHANGED <<dirVars, flowVars, pq, auditVars, jobVars>>

RequireClientAccess(email, client_id, store_up) ==
    /\ last' = [Call("require_client_access", email, store_up, <<>>, client_id, "none",
                     <<>>, FALSE, require_client_access(email, client_id, store_up))
                EXCEPT !.context = get_user_context(email, store_up)]
    /\ UNCHANGED <<dirVars, flowVars, pq, auditVars, jobVars>>

RequireProjectAccess(email, project_id, store_up) ==
    /\ last' = [Call("require_project_access", email, store_up, <<>>, project_id, "none",
                     <<>>, FALSE, require_project_access(email, project_id, store_up))
                EXCEPT !.context = get_user_context(email, store_up)]
    /\ UNCHANGED <<dirVars, flowVars, pq, auditVars, jobVars>>

RequireRole(min_role, email, store_up) ==
    /\ last' = [Call("require_role", email, store_up, <<>>, None, "none",
                     <<>>, FALSE, require_role(min_role, email, store_up))
                EXCEPT !.min_role = min_role]
    /\ UNCHANGED <<dirVars, flowVars, pq, auditVars, jobVars>>

RequirePermission(permission, email, store_up) ==
    /\ last' = Call("require_permission", email, store_up, <<>>, permission, "none",
                    <<>>, FALSE, require_permission(permission, email, store_up))
    /\ UNCHANGED <<dirVars, flowVars, pq, auditVars, jobVars>>

\* a call of get_user_context; it only reads the directory
GetUserContext(email, store_up) ==
    /\ last' = [Call("get_user_context", email, store_up, <<>>, None, "none", <<>>,
                     FALSE, 0)
                  EXCEPT !.context = get_user_context(email, store_up)]
    /\ UNCHANGED <<dirVars, flowVars, pq, auditVars, jobVars>>

\* a call of RBACClient.get_tenant_context; it only reads the directory
GetTenantContext(email, store_up) ==
    /\ LET r == get_tenant_context(email, store_up)
       IN  last' = [Call("get_tenant_context", email, store_up, <<>>, None, r.raised,
                         <<>>, FALSE, 0)
                      EXCEPT !.context = r.context]
    /\ UNCHANGED <<dirVars, flowVars, pq, auditVars, jobVars>>

(***************************************************************************)
(* Specification of the directory and the read operations.                 *)
(***************************************************************************)
\* the ids in the path of a request: stored or not, or none at all
RequestedClientIds == ClientIds \cup {"client-b", None}

RequestedProjectIds == ProjectIds \cup {"proj-2", None}

\* the permissions the guarded routes require
ManagingPermissions ==
    {"manage_clients", "manage_projects", "manage_users", "upload_documents",
     "approve_documents", "delete_documents"}

RequiredPermissions == ManagingPermissions \cup {"view_documents"}

\* the permissions the callers ask for
CheckedPermissions == {"view_documents", "upload_documents", "manage_clients"}

ClientAssignmentRoles == {ACCOUNT_ADMIN}

ProjectAssignmentRoles == {PROJECT_ADMIN}

\* the users that have a profile
Registered == {e \in Emails : users[e].exists}

\* an empty audit log, the clock at its first second
NothingLogged ==
    /\ audit_logs = {}
    /\ now = 0

\* a project without counted documents, no handler under way
NothingUnderWay ==
    /\ document_count = 0
    /\ completed_documents = 0
    /\ tasks = {}

Init ==
    /\ users = [e \in Emails |-> NoUser]
    /\ clients = {}
    /\ projects = {}
    /\ user_client_assignments = {}
    /\ user_project_assignments = {}
    /\ documents = [d \in StoredDocIds |-> InitialDocument(d)]
    /\ access_requests = <<>>
    /\ bulk_access_requests = [b \in BulkIds |-> NoBulkRequest]
    /\ last = NoCall
    /\ pq = PlannerIdle
    /\ NothingLogged
    /\ NothingUnderWay

Next ==
    \/ \E c \in ClientIds : create_client(c, TRUE)
    \/ \E p \in ProjectIds : create_project(p, TRUE)
    \/ \E e \in Emails, r \in UserRole, cids \in IdLists(ClientIds),
          pids \in IdLists(ProjectIds) : create_user(e, r, cids, pids, TRUE)
    \/ \E e \in Registered, c \in ClientIds, r \in ClientAssignmentRoles :
          assign_user_to_client(e, c, r, TRUE)
    \/ \E e \in Registered, p \in ProjectIds, r \in ProjectAssignmentRoles :
          assign_user_to_project(e, p, r, TRUE)
    \/ \E e \in Emails, docs \in DocLists(MaxDocs), up \in BOOLEAN :
          FilterDocuments(e, docs, up)
    \/ \E e \in Emails, d \in DocIds, up \in BOOLEAN : CheckDocumentAccess(e, d, up)
    \/ \E e \in Emails, d \in DocIds, up \in BOOLEAN : GetDocument(e, d, up)
    \/ \E e \in Emails, d \in DocIds : CheckDocumentAccessDocsDown(e, d)
    \/ \E e \in Emails, up \in BOOLEAN : GetUserContext(e, up)
    \/ \E e \in Emails, up \in BOOLEAN : GetTenantContext(e, up)

Spec == Init /\ [][Next]_vars

(***************************************************************************)
(* Specification of the route guards and of the RBAC client's document     *)
(* check over the same directory.                                          *)
(***************************************************************************)
NextGuards ==
    \/ \E c \in ClientIds : create_client(c, TRUE)
    \/ \E p \in ProjectIds : create_project(p, TRUE)
    \/ \E e \in Emails, r \in UserRole, cids \in IdLists(ClientIds),
          pids \in IdLists(ProjectIds) : create_user(e, r, cids, pids, TRUE)
    \/ \E e \in Emails, c \in ClientIds, r \in ClientAssignmentRoles :
          assign_user_to_client(e, c, r, TRUE)
    \/ \E e \in Emails, p \in ProjectIds, r \in ProjectAssignmentRoles :
          assign_user_to_project(e, p, r, TRUE)
    \/ \E e \in Emails, d \in DocIds, p \in CheckedPermissions :
          RbacCheckDocumentAccess(e, d, p)
    \/ \E e \in Emails, c \in RequestedClientIds, up \in BOOLEAN :
          RequireClientAccess(e, c, up)
    \/ \E e \in Emails, p \in RequestedProjectIds, up \in BOOLEAN :
          RequireProjectAccess(e, p, up)
    \/ \E e \in Emails, p \in RequiredPermissions, up \in BOOLEAN :
          RequirePermission(p, e, up)
    \/ \E e \in Emails, r \in UserRole, up \in BOOLEAN : RequireRole(r, e, up)

SpecGuards == Init /\ [][NextGuards]_vars

(***************************************************************************)
(* ADKPlanner (packages/agent_core/planner.py) and the earlier planner     *)
(* kept in packages/agent-core/planner.py.  pq holds the position of one   *)
(* process_query call: the candidates the vector search returned, the      *)
(* documents whose access was checked and granted so far, the snippets     *)
(* collected, what compose_answer was given and what was returned.         *)
(***************************************************************************)
MaxResults == 2

ChatMaxResults == 10

\* getattr(doc_metadata, name, None) on a DocumentMetadata object
GetAttr(doc_metadata, name) ==
    IF name \notin DocumentMetadataAttrs THEN PyNone
    ELSE IF name = "project_id" THEN DictGet(documents[doc_metadata.id].project_id)
    ELSE IF name = "client_id" THEN DictGet(documents[doc_metadata.id].client_id)
    ELSE PyStr(doc_metadata.id)

\* mutant: any document that has a project is granted
planner_check_document_access_AnyProject(doc_metadata, user_project_ids, user_client_ids, user_role) ==
    IF ~Truthy(doc_metadata) THEN FALSE
    ELSE IF user_role = SUPER_ADMIN THEN TRUE
    ELSE \/ Truthy(GetAttr(doc_metadata, "project_id"))
         \/ /\ Truthy(GetAttr(doc_metadata, "client_id"))
            /\ InList(GetAttr(doc_metadata, "client_id"), user_client_ids)

\* mutant: the check is skipped, every candidate with metadata is used
planner_check_document_access_Skipped(doc_metadata, user_project_ids, user_client_ids, user_role) ==
    Truthy(doc_metadata)

\* ADKPlanner._check_document_access
planner_check_document_access(doc_metadata, user_project_ids, user_client_ids, user_role) ==
    IF ~Truthy(doc_metadata) THEN FALSE
    ELSE IF user_role = SUPER_ADMIN THEN TRUE
    ELSE LET doc_project_id == GetAttr(doc_metadata, "project_id")
             doc_client_id == GetAttr(doc_metadata, "client_id")
         IN  \/ Truthy(doc_project_id) /\ InList(doc_project_id, user_project_ids)
             \/ Truthy(doc_client_id) /\ InList(doc_client_id, user_client_ids)

\* compose_answer: the documents whose title and excerpt the answer text holds
compose_answer(snippets) == snippets

\* names the module packages/agent-core/planner.py binds; fetch_snippets is
\* bound in tools.py and in the package, not in the planner module
LegacyPlannerGlobals == {"VectorSearchClient", "FirestoreClient", "ADKPlanner"}

\* process_query up to the loop: read the filters, run the vector search
StartQuery(impl, via, email, pids, cids, role, results, max_results) ==
    /\ pq.pc = "idle"
    /\ pq' = [PlannerIdle EXCEPT !.pc = "loop", !.impl = impl, !.via = via,
                                 !.email = email, !.user_project_ids = pids,
                                 !.user_client_ids = cids, !.user_role = role,
                                 !.search_results = results,
                                 !.max_results = max_results]
    /\ UNCHANGED <<dirVars, flowVars, last, auditVars, jobVars>>

\* a direct call of ADKPlanner.process_query with the caller's ids as strings
process_query(pids, cids, role, results, max_results) ==
    StartQuery("agent_core", "direct", None, pids, cids, role, results, max_results)

\* the same call on the planner of packages/agent-core
legacy_process_query(results, max_results) ==
    StartQuery("agent-core", "direct", None, <<>>, <<>>, None, results, max_results)

\* POST /chat up to the planner call: the resolved context goes into the filters
chat(email, results, store_up) ==
    LET user_context == get_user_context(email, store_up)
    IN  StartQuery("agent_core", "chat", email, user_context.project_ids,
                   user_context.client_ids, user_context.role, results, ChatMaxResults)

\* one iteration of the loop of agent_core's process_query
QueryLoop ==
    /\ pq.pc = "loop"
    /\ pq.impl = "agent_core"
    /\ pq.next <= Len(pq.search_results)
    /\ LET doc_id == pq.search_results[pq.next]
           doc_metadata == firestore_get_document(doc_id)
           ok == planner_check_document_access(doc_metadata, pq.user_project_ids,
                                               pq.user_client_ids, pq.user_role)
           collected == IF ok THEN Append(pq.all_snippets, doc_id) ELSE pq.all_snippets
       IN  pq' = [pq EXCEPT !.checked = @ \cup {doc_id},
                            !.granted = IF ok THEN @ \cup {doc_id} ELSE @,
                            !.all_snippets = collected,
                            !.next = @ + 1,
                            !.pc = IF ok /\ Len(collected) >= pq.max_results
                                   THEN "compose" ELSE "loop"]
    /\ UNCHANGED <<dirVars, flowVars, last, auditVars, jobVars>>

\* the loop is exhausted, or (agent-core) there was no candidate to loop over
QueryLoopEnd ==
    /\ pq.pc = "loop"
    /\ pq.next > Len(pq.search_results)
    /\ pq' = [pq EXCEPT !.pc = "compose"]
    /\ UNCHANGED <<dirVars, flowVars, last, auditVars, jobVars>>

\* the loop body of agent-core's process_query: the name fetch_snippets is
\* looked up in the module globals, NameError, the except branch answers
LegacyLoop ==
    /\ pq.pc = "loop"
    /\ pq.impl = "agent-core"
    /\ pq.next <= Len(pq.search_results)
    /\ IF "fetch_snippets" \in LegacyPlannerGlobals
       THEN pq' = [pq EXCEPT !.all_snippets = Append(@, pq.search_results[pq.next]),
                             !.next = @ + 1]
       ELSE pq' = [pq EXCEPT !.pc = "returned", !.kind = "error", !.answer = <<>>,
                             !.snippets = <<>>]
    /\ UNCHANGED <<dirVars, flowVars, last, auditVars, jobVars>>

\* a store read inside the try block raises: the except branch answers
QueryStoreError ==
    /\ pq.pc = "loop"
    /\ pq.impl = "agent_core"
    /\ pq.next <= Len(pq.search_results)
    /\ pq' = [pq EXCEPT !.pc = "returned", !.kind = "error", !.answer = <<>>,
                        !.snippets = <<>>]
    /\ UNCHANGED <<dirVars, flowVars, last, auditVars, jobVars>>

\* answer = self.compose_answer(query, all_snippets); return
QueryCompose ==
    /\ pq.pc = "compose"
    /\ pq' = [pq EXCEPT !.pc = "returned",
                        !.composed = pq.all_snippets,
                        !.kind = IF pq.all_snippets = <<>> THEN "nothing_found" ELSE "composed",
                        !.answer = compose_answer(pq.all_snippets),
                        !.snippets = pq.all_snippets]
    /\ UNCHANGED <<dirVars, flowVars, last, auditVars, jobVars>>

\* a citation dict built from a snippet: it has doc_id, title, uri, page,
\* excerpt and thumbnail, and neither project_id nor client_id
Citation(doc_id) == [id |-> doc_id, project_id |-> None, client_id |-> None]

\* POST /chat after the planner returned: citations, then the access filter
chat_respond ==
    /\ pq.pc = "returned"
    /\ pq.via = "chat"
    /\ LET all_citations == [i \in 1..Len(pq.snippets) |-> Citation(pq.snippets[i])]
           r == filter_documents_by_access(pq.email, all_citations, TRUE)
       IN  pq' = IF r.raised # "none"
                 THEN [pq EXCEPT !.pc = "responded", !.status = 500, !.answer = <<>>,
                                 !.citations = <<>>]
                 ELSE [pq EXCEPT !.pc = "responded", !.status = 200,
                                 !.citations = DictIds(r.docs)]
    /\ UNCHANGED <<dirVars, flowVars, last, auditVars, jobVars>>

\* the caller has the result; the planner is free for the next query
QueryDone ==
    /\ \/ pq.pc = "responded"
       \/ pq.pc = "returned" /\ pq.via = "direct"
    /\ pq' = PlannerIdle
    /\ UNCHANGED <<dirVars, flowVars, last, auditVars, jobVars>>

(***************************************************************************)
(* Owner access-request workflow (services/api/admin/app.py).              *)
(***************************************************************************)
MaxRequests == 2

MaxResolutions == 2

\* the dict the admin service's auth dependency hands to a handler; the
\* handlers read user["user"] and user.get("roles", []).  user = None is the
\* dict of clients/auth.py verify_google_token, which has no "user" key
Caller(user, roles) == [user |-> user, roles |-> roles]

AdminCallers ==
    {Caller(OwnerEmail, {}), Caller("admin1", {"admin"}), Caller("u1", {}),
     Caller(None, {})}

AdminCall(op, user, doc_id, request_id, status) ==
    [Call(op, user.user, TRUE, <<>>, doc_id, "none", <<>>, FALSE, status)
        EXCEPT !.request_id = request_id]

\* the owner-or-admin test of approve_access_request and deny_access_request
may_resolve(user, access_req_data) ==
    ~(user.user # access_req_data.owner_email /\ "admin" \notin user.roles)

\* POST /admin/documents/{doc_id}/request-owner-access
request_owner_access(doc_id, user) ==
    /\ Len(access_requests) < MaxRequests
    /\ IF doc_id \notin StoredDocIds
       THEN /\ last' = AdminCall("request_owner_access", user, doc_id, 0, 404)
            /\ UNCHANGED flowVars
       ELSE IF documents[doc_id].status # "request_access"
       THEN /\ last' = AdminCall("request_owner_access", user, doc_id, 0, 400)
            /\ UNCHANGED flowVars
       ELSE IF documents[doc_id].responsible_party = None
       THEN /\ last' = AdminCall("request_owner_access", user, doc_id, 0, 400)
            /\ UNCHANGED flowVars
       ELSE IF user.user = None
       THEN /\ last' = AdminCall("request_owner_access", user, doc_id, 0, 500)
            /\ UNCHANGED flowVars
       ELSE LET access_request_id == Len(access_requests) + 1
            IN  /\ access_requests' =
                      Append(access_requests,
                             AccessRequest(doc_id, documents[doc_id].responsible_party,
                                           documents[doc_id].bulk_request_id))
                /\ documents' = [documents EXCEPT ![doc_id].status = "access_requested",
                                                  ![doc_id].access_request_id = access_request_id]
                /\ last' = AdminCall("request_owner_access", user, doc_id,
                                     access_request_id, 200)
                /\ UNCHANGED bulk_access_requests
    /\ UNCHANGED <<dirVars, pq, auditVars, jobVars>>

\* the BulkAccessRequest record: the counts not given start at zero
BulkAccessRequest(total_documents, pending_count) ==
    [exists |-> TRUE, total_documents |-> total_documents,
     pending_count |-> pending_count, approved_count |-> 0, denied_count |-> 0]

\* the loop of bulk_request_owner_access over doc_ids[i..]: a missing document
\* or one without owner is skipped, the others get a request each
RECURSIVE BulkCreate(_, _, _, _)
BulkCreate(doc_ids, i, store, bulk_request_id) ==
    IF i > Len(doc_ids) THEN store
    ELSE LET doc_id == doc_ids[i]
         IN  IF doc_id \notin StoredDocIds
             THEN BulkCreate(doc_ids, i + 1, store, bulk_request_id)
             ELSE IF store.documents[doc_id].responsible_party = None
             THEN BulkCreate(doc_ids, i + 1, store, bulk_request_id)
             ELSE BulkCreate(doc_ids, i + 1,
                    [documents |->
                        [store.documents EXCEPT
                            ![doc_id].status = "access_requested",
                            ![doc_id].access_request_id = Len(store.access_requests) + 1,
                            ![doc_id].bulk_request_id = bulk_request_id],
                     access_requests |->
                        Append(store.access_requests,
                               AccessRequest(doc_id,
                                             store.documents[doc_id].responsible_party,
                                             bulk_request_id))],
                    bulk_request_id)

\* POST /admin/documents/bulk-request-owner-access
bulk_request_owner_access(doc_ids, user) ==
    /\ Len(access_requests) + Len(doc_ids) <= MaxRequests
    /\ \E bulk_request_id \in BulkIds :
          /\ ~bulk_access_requests[bulk_request_id].exists
          /\ IF doc_ids = <<>>
             THEN /\ last' = AdminCall("bulk_request_owner_access", user, None, 0, 400)
                  /\ UNCHANGED flowVars
             ELSE IF user.user = None
             THEN /\ last' = AdminCall("bulk_request_owner_access", user, None, 0, 500)
                  /\ UNCHANGED flowVars
             ELSE LET store == BulkCreate(doc_ids, 1,
                                  [documents |-> documents,
                                   access_requests |-> access_requests],
                                  bulk_request_id)
                  IN  /\ bulk_access_requests' =
                            [bulk_access_requests EXCEPT ![bulk_request_id] =
                                BulkAccessRequest(Len(doc_ids), Len(doc_ids))]
                      /\ documents' = store.documents
                      /\ access_requests' = store.access_requests
                      /\ last' = AdminCall("bulk_request_owner_access", user, None, 0, 200)
    /\ UNCHANGED <<dirVars, pq, auditVars, jobVars>>

\* mutant: the field is set to the operand instead of being moved by it
Increment_Sets(n, by) == by

\* firestore.Increment(by) applied to a stored number
Increment(n, by) == n + by

\* the counters of a bulk request are capped to keep the model finite
CountersBelowCap(request_id) ==
    IF request_id > Len(access_requests) THEN TRUE
    ELSE IF access_requests[request_id].bulk_request_id = None THEN TRUE
    ELSE LET bulk == bulk_access_requests[access_requests[request_id].bulk_request_id]
         IN  bulk.approved_count + bulk.denied_count < MaxResolutions

\* approve_access_request binds the name status itself (status, done =
\* downloader.next_chunk()), so status.HTTP_404_NOT_FOUND and
\* status.HTTP_403_FORBIDDEN raise UnboundLocalError there, and so does the
\* status.HTTP_500_INTERNAL_SERVER_ERROR of the except branch: the server
\* answers 500 whatever code the handler meant
ApproveErrorStatus(code) == 500

\* POST /admin/access-requests/{request_id}/approve
approve_access_request(request_id, user) ==
    /\ CountersBelowCap(request_id)
    /\ IF request_id > Len(access_requests)
       THEN /\ last' = AdminCall("approve_access_request", user, None, request_id,
                                 ApproveErrorStatus(404))
            /\ UNCHANGED flowVars
       ELSE LET access_req_data == access_requests[request_id]
                doc_id == access_req_data.doc_id
                bulk_request_id == access_req_data.bulk_request_id
            IN  IF user.user = None
                THEN /\ last' = AdminCall("approve_access_request", user, doc_id,
                                          request_id, 500)
                     /\ UNCHANGED flowVars
                ELSE IF ~may_resolve(user, access_req_data)
                THEN /\ last' = AdminCall("approve_access_request", user, doc_id,
                                          request_id, ApproveErrorStatus(403))
                     /\ UNCHANGED flowVars
                ELSE /\ access_requests' =
                           [access_requests EXCEPT ![request_id].status = "approved"]
                     /\ documents' = [documents EXCEPT ![doc_id].status = "access_granted",
                                                       ![doc_id].access_granted = TRUE]
                     /\ bulk_access_requests' =
                           IF bulk_request_id = None THEN bulk_access_requests
                           ELSE [bulk_access_requests EXCEPT
                                    ![bulk_request_id].approved_count = Increment(@, 1),
                                    ![bulk_request_id].pending_count = Increment(@, -1)]
                     /\ last' = AdminCall("approve_access_request", user, doc_id,
                                          request_id, 200)
    /\ UNCHANGED <<dirVars, pq, auditVars, jobVars>>

\* POST /admin/access-requests/{request_id}/deny
deny_access_request(request_id, user) ==
    /\ CountersBelowCap(request_id)
    /\ IF request_id > Len(access_requests)
       THEN /\ last' = AdminCall("deny_access_request", user, None, request_id, 404)
            /\ UNCHANGED flowVars
       ELSE LET access_req_data == access_requests[request_id]
                doc_id == access_req_data.doc_id
                bulk_request_id == access_req_data.bulk_request_id
            IN  IF user.user = None
                THEN /\ last' = AdminCall("deny_access_request", user, doc_id,
                                          request_id, 500)
                     /\ UNCHANGED flowVars
                ELSE IF ~may_resolve(user, access_req_data)
                THEN /\ last' = AdminCall("deny_access_request", user, doc_id,
                                          request_id, 403)
                     /\ UNCHANGED flowVars
                ELSE /\ access_requests' =
                           [access_requests EXCEPT ![request_id].status = "denied"]
                     /\ documents' = [documents EXCEPT ![doc_id].status = "quarantined",
                                                       ![doc_id].access_granted = FALSE]
                     /\ bulk_access_requests' =
                           IF bulk_request_id = None THEN bulk_access_requests
                           ELSE [bulk_access_requests EXCEPT
                                    ![bulk_request_id].denied_count = Increment(@, 1),
                                    ![bulk_request_id].pending_count = Increment(@, -1)]
                     /\ last' = AdminCall("deny_access_request", user, doc_id,
                                          request_id, 200)
    /\ UNCHANGED <<dirVars, pq, auditVars, jobVars>>

(***************************************************************************)
(* Handlers that read and write in separate steps, and the counter of the  *)
(* project's documents (services/api/admin/app.py).                        *)
(***************************************************************************)
MaxImported == 1

MaxCounted == 2

\* a handler under way: what it has read so far
Task(op, doc_id, user, migrated) ==
    [op |-> op, doc_id |-> doc_id, user |-> user, migrated |-> migrated]

\* the tenant a migration or an index import is asked to assign to
TargetClientId == "client-a"

TargetProjectId == "proj-1"

\* POST /admin/analyze-document-index from the point where the sheet has
\* been parsed into saved documents: they carry client_id and project_id and
\* are counted here, not stored one by one; the project's counter is moved
\* by their number
analyze_document_index(saved_docs, user) ==
    /\ completed_documents + saved_docs <= MaxCounted
    /\ document_count' = Increment(document_count, saved_docs)
    /\ completed_documents' = completed_documents + saved_docs
    /\ last' = AdminCall("analyze_document_index", user, None, 0, 200)
    /\ UNCHANGED <<dirVars, flowVars, pq, auditVars, tasks>>

\* the documents migrate_to_rbac rewrites: those lacking client_id or project_id
LacksTenant(d) == documents[d].client_id = None \/ documents[d].project_id = None

\* POST /admin/migrate-to-rbac, the loop over the documents: every document
\* without tenant fields gets the target client and project
migrate_to_rbac_loop(user) ==
    /\ \A t \in tasks : t.op # "migrate_to_rbac"
    /\ LET rewritten == {d \in StoredDocIds : LacksTenant(d)}
       IN  /\ documents' =
                 [d \in StoredDocIds |->
                     IF d \in rewritten
                     THEN [documents[d] EXCEPT !.client_id = TargetClientId,
                                               !.project_id = TargetProjectId,
                                               !.visibility = "project"]
                     ELSE documents[d]]
           /\ tasks' = tasks \cup {Task("migrate_to_rbac", None, user,
                                        Cardinality(rewritten))}
    /\ UNCHANGED <<dirVars, access_requests, bulk_access_requests, last, pq,
                   auditVars, document_count, completed_documents>>

\* migrate_to_rbac after the loop: document_count is set to the number counted
migrate_to_rbac_update ==
    \E t \in tasks :
        /\ t.op = "migrate_to_rbac"
        /\ document_count' = t.migrated
        /\ completed_documents' = completed_documents + t.migrated
        /\ tasks' = tasks \ {t}
        /\ last' = AdminCall("migrate_to_rbac", t.user, None, 0, 200)
        /\ UNCHANGED <<dirVars, flowVars, pq, auditVars>>

\* the statuses approve_document accepts
Approvable == {"uploaded", "access_granted", "awaiting_approval"}

\* POST /admin/documents/{doc_id}/approve up to the check of the status read
approve_document_get(doc_id, user) ==
    /\ \A t \in tasks : ~(t.op = "approve_document" /\ t.doc_id = doc_id)
    /\ IF doc_id \notin StoredDocIds
       THEN /\ last' = AdminCall("approve_document", user, doc_id, 0, 404)
            /\ tasks' = tasks
       ELSE IF documents[doc_id].status \notin Approvable
       THEN /\ last' = AdminCall("approve_document", user, doc_id, 0, 400)
            /\ tasks' = tasks
       ELSE /\ last' = last
            /\ tasks' = tasks \cup {Task("approve_document", doc_id, user, 0)}
    /\ UNCHANGED <<dirVars, flowVars, pq, auditVars, document_count,
                   completed_documents>>

\* approve_document from doc_ref.update(update_data) to the answer
approve_document_update ==
    \E t \in tasks :
        /\ t.op = "approve_document"
        /\ documents' = [documents EXCEPT ![t.doc_id].status = "approved"]
        /\ tasks' = tasks \ {t}
        /\ last' = AdminCall("approve_document", t.user, t.doc_id, 0, 200)
        /\ UNCHANGED <<dirVars, access_requests, bulk_access_requests, pq,
                       auditVars, document_count, completed_documents>>

(***************************************************************************)
(* Specification of the planner and the chat endpoint over a directory     *)
(* that create_client, create_project and create_user have filled.         *)
(***************************************************************************)
\* the profiles of the one directory user the chat callers are drawn from
ChatProfiles ==
    {NoUser,
     UserProfile(SUPER_ADMIN, <<>>, <<>>),
     UserProfile(END_USER, <<>>, <<>>),
     UserProfile(PROJECT_ADMIN, <<"client-a">>, <<"proj-1">>)}

FilledDirectory(profile) ==
    /\ users = [e \in Emails |-> profile]
    /\ clients = ClientIds
    /\ projects = ProjectIds
    /\ user_client_assignments = {}
    /\ user_project_assignments = {}

NothingRequested ==
    /\ documents = [d \in StoredDocIds |-> InitialDocument(d)]
    /\ access_requests = <<>>
    /\ bulk_access_requests = [b \in BulkIds |-> NoBulkRequest]

\* what the vector search may return: stored documents, and a chunk whose
\* document is gone from the store
CandidateLists == DocLists(MaxCandidates) \cup {<<"zz", "a">>}

\* the ids a direct caller of process_query puts in the filters, as strings
FilterProjectIds == {<<>>, <<PyStr("proj-1")>>}

FilterClientIds == {<<>>, <<PyStr("client-a")>>}

InitChat ==
    /\ \E profile \in ChatProfiles : FilledDirectory(profile)
    /\ NothingRequested
    /\ last = NoCall
    /\ pq = PlannerIdle
    /\ NothingLogged
    /\ NothingUnderWay

NextChat ==
    \/ \E pids \in FilterProjectIds, cids \in FilterClientIds,
          role \in {END_USER, SUPER_ADMIN}, results \in CandidateLists,
          m \in 1..MaxResults : process_query(pids, cids, role, results, m)
    \/ \E results \in CandidateLists, m \in 1..MaxResults :
          legacy_process_query(results, m)
    \/ \E e \in Emails, results \in CandidateLists, up \in BOOLEAN :
          chat(e, results, up)
    \/ QueryLoop
    \/ QueryLoopEnd
    \/ LegacyLoop
    \/ QueryStoreError
    \/ QueryCompose
    \/ chat_respond
    \/ QueryDone

SpecChat == InitChat /\ [][NextChat]_vars

(***************************************************************************)
(* Specification of the access-request workflow, with the planner and the  *)
(* access filter reading the documents it gates.                           *)
(***************************************************************************)
RequestDocIds == {"a", "c", "zz"}

BulkDocLists == {<<>>, <<"a">>, <<"b">>, <<"a", "b">>, <<"zz", "a">>}

InitWorkflow ==
    /\ FilledDirectory(UserProfile(END_USER, <<>>, <<>>))
    /\ NothingRequested
    /\ last = NoCall
    /\ pq = PlannerIdle
    /\ NothingLogged
    /\ NothingUnderWay

NextWorkflow ==
    \/ \E d \in RequestDocIds, u \in AdminCallers : request_owner_access(d, u)
    \/ \E doc_ids \in BulkDocLists, u \in AdminCallers :
          bulk_request_owner_access(doc_ids, u)
    \/ \E r \in 1..MaxRequests, u \in AdminCallers : approve_access_request(r, u)
    \/ \E r \in 1..MaxRequests, u \in AdminCallers : deny_access_request(r, u)
    \/ \E d \in RequiresPermission :
          process_query(<<PyStr("proj-1")>>, <<>>, END_USER, <<d>>, 1)
    \/ QueryLoop
    \/ QueryLoopEnd
    \/ QueryCompose
    \/ QueryDone
    \/ \E e \in Emails, d \in RequiresPermission : FilterDocuments(e, <<d>>, TRUE)

SpecWorkflow == InitWorkflow /\ [][NextWorkflow]_vars

(***************************************************************************)
(* Specification of the audit trail: the directory mutations with an audit *)
(* write that may fail, the access-request transitions, and the clock the  *)
(* audit ids are taken from.                                               *)
(***************************************************************************)
MaxSeconds == 1

\* the clock reaches the next second
Tick ==
    /\ now < MaxSeconds
    /\ now' = now + 1
    /\ UNCHANGED <<dirVars, flowVars, last, pq, audit_logs, jobVars>>

\* two clients whose assignment ids share their first 8 characters
AuditClientIds == {"client-a", "client-b"}

\* the audit log is capped to keep the model finite
MaxLogged == 2

LogBelowCap == Cardinality(audit_logs) < MaxLogged

InitAudit ==
    /\ FilledDirectory(UserProfile(END_USER, <<>>, <<>>))
    /\ NothingRequested
    /\ last = NoCall
    /\ pq = PlannerIdle
    /\ NothingLogged
    /\ NothingUnderWay

NextAudit ==
    \/ Tick
    \/ \E c \in ClientIds, log_up \in BOOLEAN : LogBelowCap /\ create_client(c, log_up)
    \/ \E p \in ProjectIds, log_up \in BOOLEAN : LogBelowCap /\ create_project(p, log_up)
    \/ \E e \in Emails, log_up \in BOOLEAN :
          LogBelowCap /\ create_user(e, END_USER, <<>>, <<>>, log_up)
    \/ \E e \in Emails, c \in AuditClientIds, r \in ClientAssignmentRoles,
          log_up \in BOOLEAN : LogBelowCap /\ assign_user_to_client(e, c, r, log_up)
    \/ \E e \in Emails, p \in ProjectIds, r \in ProjectAssignmentRoles,
          log_up \in BOOLEAN : LogBelowCap /\ assign_user_to_project(e, p, r, log_up)
    \/ request_owner_access("a", Caller("admin1", {"admin"}))
    \/ approve_access_request(1, Caller(OwnerEmail, {}))
    \/ deny_access_request(1, Caller(OwnerEmail, {}))

SpecAudit == InitAudit /\ [][NextAudit]_vars

(***************************************************************************)
(* Specification of the handlers that interleave between a read and a      *)
(* write.                                                                  *)
(***************************************************************************)
AdminCaller == Caller("admin1", {"admin"})

InitJobs ==
    /\ FilledDirectory(UserProfile(END_USER, <<>>, <<>>))
    /\ NothingRequested
    /\ last = NoCall
    /\ pq = PlannerIdle
    /\ NothingLogged
    /\ NothingUnderWay

NextJobs ==
    \/ \E n \in 1..MaxImported : analyze_document_index(n, AdminCaller)
    \/ migrate_to_rbac_loop(AdminCaller)
    \/ migrate_to_rbac_update
    \/ \E d \in {"a", "c", "zz"} : approve_document_get(d, AdminCaller)
    \/ approve_document_update
    \/ request_owner_access("a", AdminCaller)
    \/ \E doc_ids \in {<<"c">>, <<"a", "c">>} :
          bulk_request_owner_access(doc_ids, AdminCaller)
    \/ \E r \in 1..MaxRequests : approve_access_request(r, Caller(OwnerEmail, {}))
    \/ \E r \in 1..MaxRequests : deny_access_request(r, Caller(OwnerEmail, {}))

SpecJobs == InitJobs /\ [][NextJobs]_vars

(***************************************************************************)
(* POST /admin/rbac/users (services/api/admin/rbac_endpoints.py).          *)
(***************************************************************************)
\* the answer of the endpoint
EndpointCall(current_user, user_data, log_up, status) ==
    [Call("create_user_endpoint", user_data.email, TRUE, <<>>, None, "none",
          <<>>, FALSE, status)
       EXCEPT !.current_user = current_user, !.user_data = user_data,
              !.log_up = log_up]

\* create_user of rbac_endpoints.py: current_user["role"] raises KeyError on
\* a dict without the key, which the handler's except turns into 500; only
\* an account admin's request is compared with the caller's client_ids; the
\* profile is then stored by RBACClient.create_user, whose audit write may fail
create_user_endpoint(current_user, user_data, log_up) ==
    LET allowed_clients ==
            {current_user.client_ids[i] : i \in 1..Len(current_user.client_ids)}
        user_client_ids == user_data.client_ids
    IN  IF current_user.role = None
        THEN /\ last' = EndpointCall(current_user, user_data, log_up, 500)
             /\ UNCHANGED <<dirVars, flowVars, pq, auditVars, jobVars>>
        ELSE IF /\ current_user.role = ACCOUNT_ADMIN
                /\ ~(\A i \in 1..Len(user_client_ids) :
                        user_client_ids[i] \in allowed_clients)
        THEN /\ last' = EndpointCall(current_user, user_data, log_up, 403)
             /\ UNCHANGED <<dirVars, flowVars, pq, auditVars, jobVars>>
        ELSE /\ users' = [users EXCEPT ![user_data.email] =
                             UserProfile(user_data.role, user_data.client_ids,
                                         user_data.project_ids)]
             /\ IF log_up
                THEN /\ audit_logs' = log_action(current_user.email, "create", "user",
                                                 user_data.email, user_data.role)
                     /\ last' = EndpointCall(current_user, user_data, log_up, 201)
                ELSE /\ audit_logs' = audit_logs
                     /\ last' = EndpointCall(current_user, user_data, log_up, 500)
             /\ UNCHANGED <<clients, projects, user_client_assignments,
                            user_project_assignments, flowVars, pq, now, jobVars>>

\* the client and project ids a request may name
RequestedClientLists == {<<"client-a">>, <<"client-b">>}

RequestedProjectLists == {<<>>, <<"proj-2">>}

\* the callers: the dict require_admin_auth returns, which has no role key,
\* and dicts that carry the caller's role, client_ids and project_ids
CurrentUsers ==
    {CurrentUser(ActorEmail, r, <<"client-a">>, <<"proj-1">>) :
        r \in {None, ACCOUNT_ADMIN, SUPER_ADMIN}}

NextUsers ==
    \E current_user \in CurrentUsers, e \in Emails, r \in UserRole,
       cids \in RequestedClientLists, pids \in RequestedProjectLists,
       log_up \in BOOLEAN :
       create_user_endpoint(current_user, UserData(e, r, cids, pids), log_up)

SpecUsers == Init /\ [][NextUsers]_vars

(***************************************************************************)
(* Vocabulary of the properties.                                           *)
(***************************************************************************)
\* the role the resolver gave the caller of the recorded operation
ResolvedRole == get_user_context(last.email, last.store_up).role

\* the ids of the caller's profile, as plain id strings
ProfileProjectIds(email) ==
    IF email \in Emails /\ users[email].exists
    THEN {users[email].project_ids[i] : i \in 1..Len(users[email].project_ids)}
    ELSE {}

ProfileClientIds(email) ==
    IF email \in Emails /\ users[email].exists
    THEN {users[email].client_ids[i] : i \in 1..Len(users[email].client_ids)}
    ELSE {}

\* the predicate of section 4.2 of the specification
SpecAccessible(email, d) ==
    \/ documents[d].project_id \in ProfileProjectIds(email)
    \/ documents[d].project_id = None /\ documents[d].client_id \in ProfileClientIds(email)
    \/ documents[d].visibility = "public"

FilterReturned == last.op = "filter" /\ last.raised = "none"

(***************************************************************************)
(* C2: a non-SuperAdmin user assigned to project proj-1 only (whether or   *)
(* not also assigned to its client) who filters the list of document a (in *)
(* proj-1) and document b (in proj-2, same client) gets exactly <<a>>.     *)
(***************************************************************************)
C2_CrossProjectIsolation ==
    ( /\ last.op = "filter"
      /\ last.store_up
      /\ users[last.email].exists
      /\ users[last.email].role # SUPER_ADMIN
      /\ users[last.email].project_ids = <<"proj-1">>
      /\ "proj-1" \in projects
      /\ last.docs = <<"a", "b">> )
    => (last.raised = "none" /\ last.out = <<"a">>)

(***************************************************************************)
(* C3: for a caller whose resolved role is not SuperAdmin the filter never *)
(* returns a document whose project_id is outside the caller's project_ids *)
(* and whose client_id is outside the caller's client_ids; a caller with   *)
(* no assignments at all gets the empty list.                              *)
(***************************************************************************)
C3_NoDocumentOutsideScope ==
    (last.op = "filter" /\ ResolvedRole # SUPER_ADMIN)
    => /\ \A i \in 1..Len(last.out) :
             \/ documents[last.out[i]].project_id \in ProfileProjectIds(last.email)
             \/ documents[last.out[i]].client_id \in ProfileClientIds(last.email)
       /\ (ProfileProjectIds(last.email) = {} /\ ProfileClientIds(last.email) = {})
             => last.out = <<>>

\* a stored non-SuperAdmin user without any assignment filtered two documents
C3_Witness ==
    /\ FilterReturned
    /\ last.store_up
    /\ users[last.email].exists
    /\ users[last.email].role = END_USER
    /\ ProfileProjectIds(last.email) = {}
    /\ ProfileClientIds(last.email) = {}
    /\ Len(last.docs) = 2
    /\ last.out = <<>>

(***************************************************************************)
(* C4: for a caller whose role is not SuperAdmin the filter returns        *)
(* exactly the input documents, in input order, that satisfy the predicate *)
(* of section 4.2 (project match, or no project and client match, or       *)
(* public visibility).                                                     *)
(***************************************************************************)
C4_FilterIsSpecPredicate ==
    (last.op = "filter" /\ last.store_up /\ ResolvedRole # SUPER_ADMIN)
    => /\ last.raised = "none"
       /\ last.out = SelectSeq(last.docs, LAMBDA d : SpecAccessible(last.email, d))

(***************************************************************************)
(* C5: the single-document check returns true exactly when the filter      *)
(* applied to the singleton list of that stored document returns it.       *)
(***************************************************************************)
C5_CheckEquivalentToFilter ==
    /\ (last.op = "check" /\ last.doc_id \in StoredDocIds)
          => (last.allowed <=>
                 filter_documents_by_access(last.email, <<DocDict(last.doc_id)>>, last.store_up)
                    = Returned(<<DocDict(last.doc_id)>>))
    /\ (last.op = "filter" /\ Len(last.docs) = 1)
          => ((last.raised = "none" /\ last.out = last.docs) <=>
                 check_document_access(last.email, last.docs[1], last.store_up))

\* the check granted a stored document, and the filter returns it as well
C5_Witness ==
    /\ last.op = "check"
    /\ last.doc_id \in StoredDocIds
    /\ last.allowed
    /\ filter_documents_by_access(last.email, <<DocDict(last.doc_id)>>, last.store_up)
          = Returned(<<DocDict(last.doc_id)>>)

(***************************************************************************)
(* C6: for a caller whose resolved role is SuperAdmin the filter returns   *)
(* its input unchanged, whatever the input.                                *)
(***************************************************************************)
C6_SuperAdminSeesInput ==
    (last.op = "filter" /\ ResolvedRole = SUPER_ADMIN)
    => (last.raised = "none" /\ last.out = last.docs)

\* a SuperAdmin with empty id lists filtered <<c, e>>: c has no project
C6_Witness ==
    /\ FilterReturned
    /\ ResolvedRole = SUPER_ADMIN
    /\ users[last.email].client_ids = <<>>
    /\ users[last.email].project_ids = <<>>
    /\ last.docs = <<"c", "e">>
    /\ last.out = <<"c", "e">>

InPlannerScope(d) ==
    /\ d \in StoredDocIds
    /\ \/ pq.user_role = SUPER_ADMIN
       \/ /\ documents[d].project_id # None
          /\ PyStr(documents[d].project_id) \in SetOf(pq.user_project_ids)
       \/ /\ documents[d].client_id # None
          /\ PyStr(documents[d].client_id) \in SetOf(pq.user_client_ids)

(***************************************************************************)
(* C1: in agent_core's ADKPlanner.process_query the caller's access check  *)
(* has run on a candidate before it can reach the answer: whatever is      *)
(* collected for compose_answer, composed, answered or returned as snippet *)
(* was checked and granted, and what is granted lies in the scope of the   *)
(* ids in the filters.  For an EndUser with project_ids = [proj-1] (and no *)
(* client ids) and the candidates a (proj-1) and b (proj-2), answer and    *)
(* snippets reference a only.                                              *)
(***************************************************************************)
C1_AccessCheckBeforeCompose ==
    pq.impl = "agent_core" =>
        /\ pq.granted \subseteq pq.checked
        /\ \A d \in pq.granted : InPlannerScope(d)
        /\ SetOf(pq.all_snippets) \subseteq pq.granted
        /\ SetOf(pq.composed) \subseteq pq.granted
        /\ SetOf(pq.answer) \subseteq SetOf(pq.composed)
        /\ SetOf(pq.snippets) \subseteq SetOf(pq.composed)
        /\ ( /\ pq.user_role = END_USER
             /\ pq.user_project_ids = <<PyStr("proj-1")>>
             /\ pq.user_client_ids = <<>>
             /\ SetOf(pq.search_results) = {"a", "b"}
             /\ pq.kind = "composed" )
           => pq.answer = <<"a">> /\ pq.snippets = <<"a">>

\* an EndUser of proj-1 asked with candidates a and b: both were checked,
\* the answer was composed from a alone
C1_Witness ==
    /\ pq.impl = "agent_core"
    /\ pq.via = "direct"
    /\ pq.pc = "returned"
    /\ pq.user_role = END_USER
    /\ pq.user_project_ids = <<PyStr("proj-1")>>
    /\ pq.user_client_ids = <<>>
    /\ pq.search_results = <<"b", "a">>
    /\ pq.checked = {"a", "b"}
    /\ pq.kind = "composed"
    /\ pq.answer = <<"a">>
    /\ pq.snippets = <<"a">>

CallerRoles(user) == UNION {c.roles : c \in {x \in AdminCallers : x.user = user}}

ResolveOps == {"approve_access_request", "deny_access_request"}

C13_StoreFailureFailsClosed ==
    /\ (last.op = "get_user_context" /\ ~last.store_up)
          => /\ last.raised = "none"
             /\ last.context.role = END_USER
             /\ last.context.permissions = {}
             /\ last.context.client_ids = <<>>
             /\ last.context.project_ids = <<>>
    /\ (last.op = "filter" /\ ~last.store_up) => last.out = <<>>
    /\ (last.op = "check" /\ ~last.store_up) => ~last.allowed
    /\ (last.op = "check_docs_down" /\ last.raised = "StoreError") => ~last.allowed

\* the directory failed while the documents of a stored SuperAdmin were
\* filtered: nothing was returned
C13_Witness ==
    /\ last.op = "filter"
    /\ ~last.store_up
    /\ users[last.email].exists
    /\ users[last.email].role = SUPER_ADMIN
    /\ last.docs # <<>>
    /\ last.out = <<>>

(***************************************************************************)
(* C14: for an email with a UserProfile the resolved context carries the   *)
(* permissions of the role table entry of profile.role, and an id string   *)
(* is a member of the context's client_ids (project_ids) exactly when it   *)
(* is in the profile's client_ids (project_ids).  Checked for profiles     *)
(* whose ids all name stored clients and projects.                         *)
(***************************************************************************)
C14_ContextCarriesProfileIds ==
    ( /\ last.op = "get_user_context"
      /\ last.store_up
      /\ get_user_by_email(last.email).exists
      /\ ProfileClientIds(last.email) \subseteq clients
      /\ ProfileProjectIds(last.email) \subseteq projects )
    => /\ last.context.role = users[last.email].role
       /\ last.context.permissions = ROLE_PERMISSIONS[users[last.email].role]
       /\ \A c \in ClientIds :
             InList(PyStr(c), last.context.client_ids) <=> c \in ProfileClientIds(last.email)
       /\ \A p \in ProjectIds :
             InList(PyStr(p), last.context.project_ids) <=> p \in ProfileProjectIds(last.email)

(***************************************************************************)
(* C15: a document without project_id is accessible to SuperAdmin callers  *)
(* only: the planner's access check grants no such document to a caller    *)
(* whose role is not SuperAdmin, whatever client ids the caller has.       *)
(***************************************************************************)
C15_NoProjectSuperAdminOnly ==
    pq.user_role # SUPER_ADMIN =>
        \A d \in pq.granted \cup SetOf(pq.snippets) : documents[d].project_id # None

(***************************************************************************)
(* C16: require_client_access (require_project_access) admits a caller     *)
(* exactly when the caller is SuperAdmin or the requested client id        *)
(* (project id) is among the ids of the caller's profile, and answers 403  *)
(* otherwise: an AccountAdmin of client-a is admitted for client-a and     *)
(* rejected for client-b.  Checked with the store up, a requested id in    *)
(* the path, and profiles whose ids name stored clients and projects.      *)
(***************************************************************************)
C16_ScopeAccessExactlyForAssigned ==
    ( /\ last.op \in {"require_client_access", "require_project_access"}
      /\ last.store_up
      /\ last.doc_id # None
      /\ ProfileClientIds(last.email) \subseteq clients
      /\ ProfileProjectIds(last.email) \subseteq projects )
    => LET assigned == IF last.op = "require_client_access"
                       THEN ProfileClientIds(last.email)
                       ELSE ProfileProjectIds(last.email)
           admitted == ResolvedRole = SUPER_ADMIN \/ last.doc_id \in assigned
       IN  /\ admitted => last.status = 200
           /\ ~admitted => last.status = 403

(***************************************************************************)
(* C17: require_permission(p) admits a caller exactly when p is in the     *)
(* permission set resolved for the caller, which for a stored profile is   *)
(* the role table entry of its role and for a caller without profile is    *)
(* empty.  A caller with role EndUser or without profile is answered 403   *)
(* for manage-clients, manage-projects, manage-users, upload-documents,    *)
(* approve-documents and delete-documents; a ProjectAdmin is admitted for  *)
(* upload and approve and answered 403 for manage-clients.                 *)
(***************************************************************************)
C17_PermissionExactlyByRole ==
    last.op = "require_permission" =>
        LET profile == get_user_by_email(last.email)
            p == last.doc_id
        IN  /\ last.status \in {200, 403}
            /\ (profile.exists /\ last.store_up)
                  => (last.status = 200 <=> p \in ROLE_PERMISSIONS[profile.role])
            /\ (~profile.exists \/ ~last.store_up) => last.status = 403
            /\ (~profile.exists \/ profile.role = END_USER)
                  => (p \in ManagingPermissions => last.status = 403)
            /\ (profile.exists /\ profile.role = PROJECT_ADMIN /\ last.store_up)
                  => /\ p \in {"upload_documents", "approve_documents"} => last.status = 200
                     /\ p = "manage_clients" => last.status = 403

\* a ProjectAdmin with a project assignment asked for manage-clients: 403
C17_Witness ==
    /\ last.op = "require_permission"
    /\ last.store_up
    /\ users[last.email].exists
    /\ users[last.email].role = PROJECT_ADMIN
    /\ users[last.email].project_ids # <<>>
    /\ last.doc_id = "manage_clients"
    /\ last.status = 403

\* the role of the assignment record of a user on a scope, None without one
AssignmentRole(assignments, user_id, scope) ==
    IF \E a \in assignments : a.user_id = user_id /\ a.scope = scope
    THEN (CHOOSE a \in assignments : a.user_id = user_id /\ a.scope = scope).role
    ELSE None

(***************************************************************************)
(* C18: when the caller holds an assignment on the accessed client or      *)
(* project, the role and permissions used for the request are those of the *)
(* assignment: a document check in a project answers by the permissions of *)
(* the project assignment's role, and a request admitted on a client or    *)
(* project route carries the assignment's role and permissions.            *)
(***************************************************************************)
C18_AssignmentRoleIsEffective ==
    /\ ( /\ last.op = "rbac_check"
         /\ users[last.email].exists
         /\ last.doc_id \in StoredDocIds
         /\ documents[last.doc_id].project_id # None )
       => LET r == AssignmentRole(user_project_assignments, last.email,
                                  documents[last.doc_id].project_id)
          IN  r # None => (last.allowed <=> has_permission(r, last.permission))
    /\ ( /\ last.op \in {"require_client_access", "require_project_access"}
         /\ last.status = 200
         /\ last.doc_id # None )
       => LET r == AssignmentRole(IF last.op = "require_client_access"
                                  THEN user_client_assignments
                                  ELSE user_project_assignments,
                                  last.email, last.doc_id)
          IN  r # None => /\ last.context.role = r
                          /\ last.context.permissions = get_role_permissions(r)

MembersWithStatus(b, st) ==
    Cardinality({i \in 1..Len(access_requests) :
                    /\ access_requests[i].bulk_request_id = b
                    /\ access_requests[i].status = st})

AtOrAbove ==
    {<<SUPER_ADMIN, SUPER_ADMIN>>, <<SUPER_ADMIN, ACCOUNT_ADMIN>>,
     <<SUPER_ADMIN, PROJECT_ADMIN>>, <<SUPER_ADMIN, END_USER>>,
     <<ACCOUNT_ADMIN, ACCOUNT_ADMIN>>, <<ACCOUNT_ADMIN, PROJECT_ADMIN>>,
     <<ACCOUNT_ADMIN, END_USER>>, <<PROJECT_ADMIN, PROJECT_ADMIN>>,
     <<PROJECT_ADMIN, END_USER>>, <<END_USER, END_USER>>}

(***************************************************************************)
(* C26: require_role(min_role) admits a caller exactly when the caller's   *)
(* resolved role is at or above min_role in the order SuperAdmin >         *)
(* AccountAdmin > ProjectAdmin > EndUser; a caller without profile is      *)
(* treated as EndUser and answered 403 for every min_role above EndUser.   *)
(***************************************************************************)
C26_RoleAtOrAboveMinimum ==
    last.op = "require_role" =>
        LET profile == get_user_by_email(last.email)
            role == IF profile.exists /\ last.store_up THEN profile.role ELSE END_USER
        IN  /\ last.status \in {200, 403}
            /\ last.status = 200 <=> <<role, last.min_role>> \in AtOrAbove
            /\ ~profile.exists => (last.status = 403 <=> last.min_role # END_USER)

\* an AccountAdmin admitted where AccountAdmin is the minimum
C26_Witness ==
    /\ last.op = "require_role"
    /\ last.store_up
    /\ users[last.email].exists
    /\ users[last.email].role = ACCOUNT_ADMIN
    /\ last.min_role = ACCOUNT_ADMIN
    /\ last.status = 200

(***************************************************************************)
(* C25: filter_documents_by_access is a pure projection: a call changes no *)
(* stored state, returns documents of its input list only, and makes no    *)
(* directory or document-store lookup per document or per assigned id.     *)
(***************************************************************************)
C25_FilterIsPureProjection ==
    [][ (last'.op = "filter" /\ last' # last) =>
           /\ UNCHANGED <<dirVars, flowVars>>
           /\ \A i \in 1..Len(last'.out) :
                 \E j \in 1..Len(last'.docs) : last'.docs[j] = last'.out[i]
           /\ \A i \in 1..Len(last'.lookups) :
                 /\ last'.lookups[i].collection # "documents"
                 /\ last'.lookups[i].key \notin
                       (ProfileClientIds(last'.email) \cup ProfileProjectIds(last'.email))
      ]_vars

\* the answers of the four access predicates for one user and one stored
\* document, the planner being given the filters POST /chat builds
AccessAnswers(email, doc_id) ==
    LET context == get_user_context(email, TRUE)
        filtered == filter_documents_by_access(email, DocDicts(<<doc_id>>), TRUE)
    IN  [rbac |-> rbac_check_document_access(email, doc_id, "view_documents"),
         planner |-> planner_check_document_access(firestore_get_document(doc_id),
                        context.project_ids, context.client_ids, context.role),
         check |-> check_document_access(email, doc_id, TRUE),
         filter |-> filtered.raised = "none" /\ DictIds(filtered.docs) = <<doc_id>>]

(***************************************************************************)
(* C30: all access-predicate implementations agree: for every user who is  *)
(* not SuperAdmin and has the view permission and for every stored         *)
(* document, RBACClient.check_document_access, the planner's               *)
(* _check_document_access, auth.check_document_access and                  *)
(* filter_documents_by_access on the singleton list give the same answer.  *)
(***************************************************************************)
C30_AccessPredicatesAgree ==
    \A email \in Emails, doc_id \in StoredDocIds :
        ( /\ users[email].exists
          /\ users[email].role # SUPER_ADMIN
          /\ has_permission(users[email].role, "view_documents") )
        => LET answers == AccessAnswers(email, doc_id)
           IN  /\ answers.rbac = answers.planner
               /\ answers.planner = answers.check
               /\ answers.check = answers.filter

\* the scopes for which an assignment record of the user is stored
AssignedScopes(assignments, user_id) ==
    {a.scope : a \in {b \in assignments : b.user_id = user_id}}

(***************************************************************************)
(* C29: in every reachable state an assignment record for (user, client)   *)
(* or (user, project) exists exactly when that id is in the user's         *)
(* client_ids or project_ids, and there is at most one record per pair and *)
(* one list entry per id.                                                  *)
(***************************************************************************)
C29_AssignmentRecordsMatchLists ==
    \A email \in Emails :
        /\ AssignedScopes(user_client_assignments, email) = ProfileClientIds(email)
        /\ AssignedScopes(user_project_assignments, email) = ProfileProjectIds(email)
        /\ Cardinality({a \in user_client_assignments : a.user_id = email})
              = Cardinality(AssignedScopes(user_client_assignments, email))
        /\ Len(users[email].client_ids) = Cardinality(ProfileClientIds(email))
        /\ Len(users[email].project_ids) = Cardinality(ProfileProjectIds(email))

\* the resource a recorded mutation was about, as its audit entry names it
MutatedResource ==
    CASE last.op = "assign_user_to_client" ->
            {ClientAssignmentId(last.email, c) : c \in ProfileClientIds(last.email)}
      [] last.op = "assign_user_to_project" ->
            {ProjectAssignmentId(last.email, p) : p \in ProfileProjectIds(last.email)}
      [] OTHER -> {last.doc_id}

DirectoryOps ==
    {"create_client", "create_project", "create_user", "assign_user_to_client",
     "assign_user_to_project"}

(***************************************************************************)
(* C23: a failure of the audit write never blocks or undoes the action     *)
(* that triggered it: when log_action fails inside create_client,          *)
(* create_project, create_user, assign_user_to_client or                   *)
(* assign_user_to_project, the operation still returns its success result  *)
(* and the mutation it made stays in place.                                *)
(***************************************************************************)
C23_AuditFailureDoesNotBlock ==
    [][ ( /\ last' # last
          /\ last'.op \in DirectoryOps
          /\ ~last'.log_up )
        => /\ last'.raised = "none"
           /\ last'.op = "create_client" => clients' # {}
           /\ last'.op = "create_project" => projects' # {}
           /\ last'.op = "create_user" => users'[last'.email].exists
           /\ last'.op = "assign_user_to_client" =>
                 AssignedScopes(user_client_assignments', last'.email) # {}
           /\ last'.op = "assign_user_to_project" =>
                 AssignedScopes(user_project_assignments', last'.email) # {}
      ]_vars

(***************************************************************************)
(* C24: the audit log is append-only: no step overwrites or deletes an     *)
(* entry, and every log_action call that changes the log adds exactly one  *)
(* entry, also for calls made within the same second for resources whose   *)
(* ids share their first 8 characters.                                     *)
(***************************************************************************)
C24_AuditLogAppendOnly ==
    [][ /\ audit_logs \subseteq audit_logs'
        /\ audit_logs' # audit_logs
              => Cardinality(audit_logs') = Cardinality(audit_logs) + 1
      ]_vars

(***************************************************************************)
(* C21: every update of a bulk request's counters and of a project's       *)
(* document_count is an increment or decrement by what the operation       *)
(* added, never a write of an absolute value: in every interleaving of     *)
(* grants, denials, imports and migrations each step moves document_count  *)
(* by the number of documents the completed operation added and a bulk     *)
(* counter by one, so that no update is lost.                              *)
(***************************************************************************)
C21_CountersMoveByIncrements ==
    [][ /\ document_count' - document_count = completed_documents' - completed_documents
        /\ \A b \in BulkIds :
              (bulk_access_requests[b].exists /\ bulk_access_requests'[b].exists)
              => /\ bulk_access_requests'[b].pending_count
                       - bulk_access_requests[b].pending_count \in {0, -1}
                 /\ bulk_access_requests'[b].approved_count
                       - bulk_access_requests[b].approved_count \in {0, 1}
                 /\ bulk_access_requests'[b].denied_count
                       - bulk_access_requests[b].denied_count \in {0, 1}
      ]_vars

ExceedsCreator(current_user, user_data) ==
    \/ \E i \in 1..Len(user_data.client_ids) :
          user_data.client_ids[i]
             \notin {current_user.client_ids[j] : j \in 1..Len(current_user.client_ids)}
    \/ \E i \in 1..Len(user_data.project_ids) :
          user_data.project_ids[i]
             \notin {current_user.project_ids[j] : j \in 1..Len(current_user.project_ids)}
    \/ role_hierarchy[user_data.role] > role_hierarchy[ACCOUNT_ADMIN]

====
